---- MODULE Spec2Model ----
(***************************************************************************)
(* A model of kbfsmd/key_bundle.go: the device key sets and their          *)
(* equality, SplitTLFCryptKey, the two MergeUsers and the removal          *)
(* accumulator (ServerHalfRemovalInfo.AddGeneration).                      *)
(*                                                                         *)
(* A Go map is a function whose DOMAIN is its key set; reading an absent   *)
(* key gives the zero value.  A DeviceServerHalfRemovalInfo map is a Go    *)
(* reference: the struct UserServerHalfRemovalInfo holds a reference into  *)
(* `heap`, so that copies of the struct share the map.  Go's map iteration *)
(* order is unspecified: every `range` is a choice of an order.            *)
(***************************************************************************)
EXTENDS Integers, Sequences, FiniteSets, TLC

VARIABLES heap, infoA, infoB, merged, calls, ret

vars == <<heap, infoA, infoB, merged, calls, ret>>

\* keybase1.UID values and kbfscrypto.CryptPublicKey values of the model.
Users == {"u1", "u2"}
Devices == {"d1", "d2"}

\* The number of AddGeneration calls made on the histories.
MaxCalls == 2
\* The lengths of the ID list a generation gives for one device: none, the
\* one the code asks for, and more than one.
GenLens == {0, 1, 2}

NoUser == "-"
NoKey == "-"

EmptyMap == [k \in {} |-> k]
Idle == [op |-> "idle"]

\* len(m) of a Go map.
MapLen(m) == Cardinality(DOMAIN m)

----------------------------------------------------------------------------
(* Errors: the format string's kind and the values it prints. *)

NoErr == [kind |-> "nil", uid |-> NoUser, key |-> NoKey, x |-> 0, y |-> 0]

Err(kind, uid, key, x, y) ==
    [kind |-> kind, uid |-> uid, key |-> key, x |-> x, y |-> y]

BoolNum(b) == IF b THEN 1 ELSE 0

----------------------------------------------------------------------------
(* UserServerHalfRemovalInfo.addGeneration *)

\* ri.DeviceServerHalfIDs[key]: the nil slice when key is absent.
DeviceIDs(hp, ri, key) ==
    IF key \in DOMAIN hp[ri.DeviceServerHalfIDs]
    THEN hp[ri.DeviceServerHalfIDs][key]
    ELSE <<>>

\* addGenerationLoop with the new ID put in front of the list.
RECURSIVE addGenerationLoop_Prepend(_, _, _, _, _, _)
addGenerationLoop_Prepend(hp, ri, uid, genInfo, keys, idCount) ==
    IF keys = {} THEN {[heap |-> hp, err |-> NoErr]}
    ELSE UNION {
        LET serverHalfIDs == genInfo.DeviceServerHalfIDs[key]
            localIDCount == Len(DeviceIDs(hp, ri, key))
            ref == ri.DeviceServerHalfIDs
        IN  IF idCount # -1 /\ localIDCount # idCount
            THEN {[heap |-> hp,
                   err |-> Err("expected keys", uid, key,
                               idCount, localIDCount)]}
            ELSE IF Len(serverHalfIDs) # 1
            THEN {[heap |-> hp,
                   err |-> Err("expected exactly one key", uid, key,
                               Len(serverHalfIDs), 0)]}
            ELSE IF key \notin DOMAIN hp[ref]
            THEN {[heap |-> hp,
                   err |-> Err("no generation info for device", uid, key,
                               0, 0)]}
            ELSE addGenerationLoop_Prepend(
                    [hp EXCEPT ![ref][key] = <<serverHalfIDs[1]>> \o @],
                    ri, uid, genInfo, keys \ {key},
                    IF idCount = -1 THEN localIDCount ELSE idCount)
        : key \in keys}

\* addGenerationLoop without the comparison of the devices' list lengths.
RECURSIVE addGenerationLoop_NoCount(_, _, _, _, _, _)
addGenerationLoop_NoCount(hp, ri, uid, genInfo, keys, idCount) ==
    IF keys = {} THEN {[heap |-> hp, err |-> NoErr]}
    ELSE UNION {
        LET serverHalfIDs == genInfo.DeviceServerHalfIDs[key]
            ref == ri.DeviceServerHalfIDs
        IN  IF Len(serverHalfIDs) # 1
            THEN {[heap |-> hp,
                   err |-> Err("expected exactly one key", uid, key,
                               Len(serverHalfIDs), 0)]}
            ELSE IF key \notin DOMAIN hp[ref]
            THEN {[heap |-> hp,
                   err |-> Err("no generation info for device", uid, key,
                               0, 0)]}
            ELSE addGenerationLoop_NoCount(
                    [hp EXCEPT ![ref][key] = Append(@, serverHalfIDs[1])],
                    ri, uid, genInfo, keys \ {key}, idCount)
        : key \in keys}

\* The range loop over genInfo.DeviceServerHalfIDs with the keys `keys`
\* still to visit: the set of results, one for each order in which the
\* loop can visit them.  idCount is -1 until the first key is seen.
RECURSIVE addGenerationLoop(_, _, _, _, _, _)
addGenerationLoop(hp, ri, uid, genInfo, keys, idCount) ==
    IF keys = {} THEN {[heap |-> hp, err |-> NoErr]}
    ELSE UNION {
        LET serverHalfIDs == genInfo.DeviceServerHalfIDs[key]
            localIDCount == Len(DeviceIDs(hp, ri, key))
            ref == ri.DeviceServerHalfIDs
        IN  IF idCount # -1 /\ localIDCount # idCount
            THEN {[heap |-> hp,
                   err |-> Err("expected keys", uid, key,
                               idCount, localIDCount)]}
            ELSE IF Len(serverHalfIDs) # 1
            THEN {[heap |-> hp,
                   err |-> Err("expected exactly one key", uid, key,
                               Len(serverHalfIDs), 0)]}
            ELSE IF key \notin DOMAIN hp[ref]
            THEN {[heap |-> hp,
                   err |-> Err("no generation info for device", uid, key,
                               0, 0)]}
            ELSE addGenerationLoop(
                    [hp EXCEPT ![ref][key] = Append(@, serverHalfIDs[1])],
                    ri, uid, genInfo, keys \ {key},
                    IF idCount = -1 THEN localIDCount ELSE idCount)
        : key \in keys}

\* addGeneration without the comparison of the UserRemoved flags.
addGeneration_NoFlag(hp, ri, uid, genInfo) ==
    IF MapLen(hp[ri.DeviceServerHalfIDs])
                # MapLen(genInfo.DeviceServerHalfIDs)
    THEN {[heap |-> hp,
           err |-> Err("device count", uid, NoKey,
                       MapLen(hp[ri.DeviceServerHalfIDs]),
                       MapLen(genInfo.DeviceServerHalfIDs))]}
    ELSE addGenerationLoop(hp, ri, uid, genInfo,
                           DOMAIN genInfo.DeviceServerHalfIDs, -1)

addGeneration(hp, ri, uid, genInfo) ==
    IF ri.UserRemoved # genInfo.UserRemoved
    THEN {[heap |-> hp,
           err |-> Err("UserRemoved", uid, NoKey,
                       BoolNum(ri.UserRemoved), BoolNum(genInfo.UserRemoved))]}
    ELSE IF MapLen(hp[ri.DeviceServerHalfIDs])
                # MapLen(genInfo.DeviceServerHalfIDs)
    THEN {[heap |-> hp,
           err |-> Err("device count", uid, NoKey,
                       MapLen(hp[ri.DeviceServerHalfIDs]),
                       MapLen(genInfo.DeviceServerHalfIDs))]}
    ELSE addGenerationLoop(hp, ri, uid, genInfo,
                           DOMAIN genInfo.DeviceServerHalfIDs, -1)

----------------------------------------------------------------------------
(* ServerHalfRemovalInfo.AddGeneration *)

\* The range loop over genInfo with the users `uids` still to visit: the
\* set of results over every order of the visits.
RECURSIVE AddGenerationLoop(_, _, _, _)
AddGenerationLoop(hp, info, genInfo, uids) ==
    IF uids = {} THEN {[heap |-> hp, err |-> NoErr]}
    ELSE UNION {
        IF uid \notin DOMAIN info
        THEN {[heap |-> hp,
               err |-> Err("no generation info for user", uid, NoKey, 0, 0)]}
        ELSE UNION {
                IF r.err # NoErr THEN {r}
                ELSE AddGenerationLoop(r.heap, info, genInfo, uids \ {uid})
                : r \in addGeneration(hp, info[uid], uid, genInfo[uid])}
        : uid \in uids}

AddGeneration(hp, info, genInfo) ==
    IF MapLen(info) # MapLen(genInfo)
    THEN {[heap |-> hp,
           err |-> Err("user count", NoUser, NoKey,
                       MapLen(info), MapLen(genInfo))]}
    ELSE AddGenerationLoop(hp, info, genInfo, DOMAIN genInfo)

----------------------------------------------------------------------------
(* ServerHalfRemovalInfo.MergeUsers and UserDeviceKeyServerHalves.MergeUsers *)

\* A returned Go map: nil, or a map.
NilMap == [isNil |-> TRUE, m |-> EmptyMap]
GoMap(m) == [isNil |-> FALSE, m |-> m]

\* MergeLoop where a user of both maps takes the entry of `other`.
RECURSIVE MergeLoop_LastWins(_, _, _, _)
MergeLoop_LastWins(mergedSoFar, other, uids, what) ==
    IF uids = {} THEN {[merged |-> GoMap(mergedSoFar), err |-> NoErr]}
    ELSE UNION {
        MergeLoop_LastWins(
            [u \in DOMAIN mergedSoFar \cup {uid} |->
                IF u = uid THEN other[uid] ELSE mergedSoFar[u]],
            other, uids \ {uid}, what)
        : uid \in uids}

\* The second range loop, over `other`, with the users `uids` still to
\* visit: the set of results over every order of the visits.
\* merged[uid] = payload copies the payload value as it is (a struct
\* holding a map reference, or a map reference).
RECURSIVE MergeLoop(_, _, _, _)
MergeLoop(mergedSoFar, other, uids, what) ==
    IF uids = {} THEN {[merged |-> GoMap(mergedSoFar), err |-> NoErr]}
    ELSE UNION {
        IF uid \in DOMAIN mergedSoFar
        THEN {[merged |-> NilMap, err |-> Err(what, uid, NoKey, 0, 0)]}
        ELSE MergeLoop(
                [u \in DOMAIN mergedSoFar \cup {uid} |->
                    IF u = uid THEN other[uid] ELSE mergedSoFar[u]],
                other, uids \ {uid}, what)
        : uid \in uids}

\* MergeUsers as a deep copy: every user's device map is copied into a map
\* of the merged info's own.
MergeUsersRemovalInfo_DeepCopy(hp, info, other) ==
    {[heap |-> IF r.merged.isNil THEN hp
               ELSE [ref \in DOMAIN hp |->
                        IF ref[1] = "m" /\ ref[2] \in DOMAIN r.merged.m
                        THEN hp[r.merged.m[ref[2]].DeviceServerHalfIDs]
                        ELSE hp[ref]],
      merged |-> IF r.merged.isNil THEN r.merged
                 ELSE GoMap([u \in DOMAIN r.merged.m |->
                        [UserRemoved |-> r.merged.m[u].UserRemoved,
                         DeviceServerHalfIDs |-> <<"m", u>>]]),
      err |-> r.err] :
        r \in MergeLoop(info, other, DOMAIN other,
                        "in both ServerHalfRemovalInfos")}

\* ServerHalfRemovalInfo.MergeUsers.  The first loop copies every entry of
\* info into the new map; no device map is allocated or written, so the
\* heap is returned as it was.
MergeUsersRemovalInfo(hp, info, other) ==
    {[heap |-> hp, merged |-> r.merged, err |-> r.err] :
        r \in MergeLoop(info, other, DOMAIN other,
                        "in both ServerHalfRemovalInfos")}

\* UserDeviceKeyServerHalves.MergeUsers.
MergeUsersServerHalves(serverHalves, other) ==
    MergeLoop(serverHalves, other, DOMAIN other,
              "in both UserDeviceKeyServerHalves")

----------------------------------------------------------------------------
(* The removal histories: state and inputs *)

Handles == {"a", "b", "m"}
Refs == Handles \X Users

\* The ID that the generation of call n gives in place i of the list of
\* device d of user u.
GenID(u, d, n, i) == [uid |-> u, key |-> d, gen |-> n, pos |-> i]

\* What a generation can say of user u in call n: a flag, devices and a
\* list for each.  `wide` draws any devices and the lengths GenLens; else
\* all the devices, each with no ID or one.
GenUserInfos(u, n, wide) ==
    UNION {{[UserRemoved |-> f,
             DeviceServerHalfIDs |->
                [d \in D |-> [i \in 1..l[d] |-> GenID(u, d, n, i)]]] :
                f \in BOOLEAN,
                l \in [D -> IF wide THEN GenLens ELSE {0, 1}]} :
            D \in IF wide THEN SUBSET Devices ELSE {Devices}}

\* Every map over the users U whose entry for u is one of GenUserInfos.
RECURSIVE MapsOver(_, _, _)
MapsOver(U, n, wide) ==
    IF U = {} THEN {EmptyMap}
    ELSE LET u == CHOOSE x \in U : TRUE
         IN  {[v \in U |-> IF v = u THEN e ELSE g[v]] :
                g \in MapsOver(U \ {u}, n, wide),
                e \in GenUserInfos(u, n, wide)}

\* The generations handed to call n.
GenInfos(n, wide) == UNION {MapsOver(U, n, wide) : U \in SUBSET Users}

\* A history as a caller constructs it: users U with flags f, the device
\* map of each user a map of its own.
NewInfo(h, U, f) ==
    [u \in U |-> [UserRemoved |-> f[u], DeviceServerHalfIDs |-> <<h, u>>]]

InfoOf(h) ==
    CASE h = "a" -> infoA
      [] h = "b" -> infoB
      [] h = "m" -> merged.m

\* The device lists reached through an info, in heap hp.
View(hp, info) ==
    [u \in DOMAIN info |-> hp[info[u].DeviceServerHalfIDs]]

\* One history, of any users, flags and devices, every list empty.
InitAcc ==
    /\ \E U \in SUBSET Users : \E f \in [U -> BOOLEAN] :
       \E D \in [U -> SUBSET Devices] :
        /\ infoA = NewInfo("a", U, f)
        /\ heap = [r \in Refs |->
                    IF r[1] = "a" /\ r[2] \in U
                    THEN [d \in D[r[2]] |-> <<>>]
                    ELSE EmptyMap]
    /\ infoB = EmptyMap
    /\ merged = NilMap
    /\ calls = 0
    /\ ret = Idle

\* Two histories, of any users, every user with all the devices: infoA of
\* users whose devices were pruned, infoB of users removed altogether.
InitMerge ==
    /\ \E UA \in SUBSET Users, UB \in SUBSET Users :
        /\ infoA = NewInfo("a", UA, [u \in UA |-> FALSE])
        /\ infoB = NewInfo("b", UB, [u \in UB |-> TRUE])
        /\ heap = [r \in Refs |->
                    IF \/ r[1] = "a" /\ r[2] \in UA
                       \/ r[1] = "b" /\ r[2] \in UB
                    THEN [d \in Devices |-> <<>>]
                    ELSE EmptyMap]
    /\ merged = NilMap
    /\ calls = 0
    /\ ret = Idle

\* info.AddGeneration(genInfo) on the info of handle h.
CallAddGeneration(h, genInfos) ==
    /\ ret = Idle
    /\ calls < MaxCalls
    /\ \E genInfo \in genInfos :
       \E r \in AddGeneration(heap, InfoOf(h), genInfo) :
        /\ heap' = r.heap
        /\ ret' = [op |-> "AddGeneration", h |-> h, genInfo |-> genInfo,
                   err |-> r.err, pre |-> heap]
    /\ calls' = calls + 1
    /\ UNCHANGED <<infoA, infoB, merged>>

\* m, err := infoA.MergeUsers(infoB); the caller keeps m when err is nil.
CallMergeUsers ==
    /\ ret = Idle
    /\ merged.isNil
    /\ \E r \in MergeUsersRemovalInfo(heap, infoA, infoB) :
        /\ heap' = r.heap
        /\ merged' = r.merged
        /\ ret' = [op |-> "MergeUsers", a |-> infoA, b |-> infoB,
                   merged |-> r.merged, err |-> r.err, pre |-> heap]
    /\ UNCHANGED <<infoA, infoB, calls>>

\* The DeviceKeyServerHalves maps a user can have in the model.
ServerHalvesPayloads == {[d \in {"d1"} |-> 1], [d \in {"d1"} |-> 2]}

UserServerHalves ==
    UNION {[U -> ServerHalvesPayloads] : U \in SUBSET Users}

\* serverHalves.MergeUsers(other) on two UserDeviceKeyServerHalves.  The
\* call reads and writes nothing of the histories: it is taken before they
\* are used.
CallMergeUsersServerHalves ==
    /\ ret = Idle
    /\ calls = 0
    /\ merged.isNil
    /\ \E a \in UserServerHalves, b \in UserServerHalves :
       \E r \in MergeUsersServerHalves(a, b) :
        ret' = [op |-> "MergeUsersServerHalves", a |-> a, b |-> b,
                merged |-> r.merged, err |-> r.err, pre |-> heap]
    /\ UNCHANGED <<heap, infoA, infoB, merged, calls>>

----------------------------------------------------------------------------
(* DevicePublicKeys.Equals and UserDevicePublicKeys.Equals *)

\* m[k] of a map to bool: false when k is absent.
BoolAt(m, k) == IF k \in DOMAIN m THEN m[k] ELSE FALSE

\* m[u] of a map to maps: the nil map when u is absent.
MapAt(m, u) == IF u \in DOMAIN m THEN m[u] ELSE EmptyMap

\* The range loop returns false at a key k with !other[k].
DevicePublicKeysEquals(dpk, other) ==
    IF MapLen(dpk) # MapLen(other) THEN FALSE
    ELSE \A k \in DOMAIN dpk : BoolAt(other, k)

UserDevicePublicKeysEquals(udpk, other) ==
    IF MapLen(udpk) # MapLen(other) THEN FALSE
    ELSE \A u \in DOMAIN udpk :
            DevicePublicKeysEquals(udpk[u], MapAt(other, u))

\* Every value of type DevicePublicKeys over the model's device keys.
DevicePublicKeySets == UNION {[D -> BOOLEAN] : D \in SUBSET Devices}

\* Every value of type UserDevicePublicKeys over the model's users.
UserDevicePublicKeySets ==
    UNION {[U -> DevicePublicKeySets] : U \in SUBSET Users}

InitKeys ==
    /\ heap = [r \in Refs |-> EmptyMap]
    /\ infoA = EmptyMap
    /\ infoB = EmptyMap
    /\ merged = NilMap
    /\ calls = 0
    /\ ret = Idle

CallDevicePublicKeysEquals ==
    /\ ret = Idle
    /\ \E a \in DevicePublicKeySets, b \in DevicePublicKeySets :
        ret' = [op |-> "DevicePublicKeys.Equals", a |-> a, b |-> b,
                result |-> DevicePublicKeysEquals(a, b)]
    /\ UNCHANGED <<heap, infoA, infoB, merged, calls>>

CallUserDevicePublicKeysEquals ==
    /\ ret = Idle
    /\ \E a \in UserDevicePublicKeySets, b \in UserDevicePublicKeySets :
        ret' = [op |-> "UserDevicePublicKeys.Equals", a |-> a, b |-> b,
                result |-> UserDevicePublicKeysEquals(a, b)]
    /\ UNCHANGED <<heap, infoA, infoB, merged, calls>>

----------------------------------------------------------------------------
(* SplitTLFCryptKey *)

\* The width in bits of a key and of a server half.
KeyBits == 2

KeyValues == 0..(2^KeyBits - 1)

RECURSIVE XorBits(_, _, _)
XorBits(a, b, n) ==
    IF n = 0 THEN 0
    ELSE (((a % 2) + (b % 2)) % 2)
            + 2 * XorBits(a \div 2, b \div 2, n - 1)

\* kbfscrypto.MaskTLFCryptKey and kbfscrypto.UnmaskTLFCryptKey: the
\* bitwise XOR of the server half with the key, or with the client half.
MaskTLFCryptKey(serverHalf, key) == XorBits(serverHalf, key, KeyBits)
UnmaskTLFCryptKey(serverHalf, clientHalf) ==
    XorBits(serverHalf, clientHalf, KeyBits)

\* A deterministic stub of cryptoPure: it gives out crypto.serverHalf, an
\* encryption that records what was encrypted and under which keys, and an
\* ID that records what it was derived from; each primitive fails with
\* its own error when the stub says so.
MakeRandomTLFCryptKeyServerHalf(crypto) ==
    [val |-> crypto.serverHalf, err |-> crypto.randErr]

EncryptTLFCryptKeyClientHalf(crypto, privateKey, publicKey, clientHalf) ==
    [val |-> [privateKey |-> privateKey, publicKey |-> publicKey,
              clientHalf |-> clientHalf],
     err |-> crypto.encErr]

GetTLFCryptKeyServerHalfID(crypto, user, devicePubKey, serverHalf) ==
    [val |-> [uid |-> user, key |-> devicePubKey, serverHalf |-> serverHalf],
     err |-> crypto.idErr]

\* The zero values TLFCryptKeyInfo{} and kbfscrypto.TLFCryptKeyServerHalf{}.
ZeroServerHalf == 0
ZeroKeyInfo ==
    [ClientHalf |-> [privateKey |-> NoKey, publicKey |-> NoKey,
                     clientHalf |-> 0],
     ServerHalfID |-> [uid |-> NoUser, key |-> NoKey, serverHalf |-> 0],
     EPubKeyIndex |-> 0]

\* SplitTLFCryptKey with the server half returned when a later primitive
\* fails.
SplitTLFCryptKey_KeepHalf(crypto, uid, tlfCryptKey, ePrivKey, ePubIndex, pubKey) ==
    LET rnd == MakeRandomTLFCryptKeyServerHalf(crypto)
        clientHalf == MaskTLFCryptKey(rnd.val, tlfCryptKey)
        enc == EncryptTLFCryptKeyClientHalf(crypto, ePrivKey, pubKey,
                                            clientHalf)
        id == GetTLFCryptKeyServerHalfID(crypto, uid, pubKey, rnd.val)
    IN  IF rnd.err # NoErr
        THEN [info |-> ZeroKeyInfo, serverHalf |-> ZeroServerHalf,
              err |-> rnd.err, invoked |-> <<"random">>]
        ELSE IF enc.err # NoErr
        THEN [info |-> ZeroKeyInfo, serverHalf |-> rnd.val,
              err |-> enc.err, invoked |-> <<"random", "encrypt">>]
        ELSE IF id.err # NoErr
        THEN [info |-> ZeroKeyInfo, serverHalf |-> rnd.val,
              err |-> id.err, invoked |-> <<"random", "encrypt", "id">>]
        ELSE [info |-> [ClientHalf |-> enc.val, ServerHalfID |-> id.val,
                        EPubKeyIndex |-> ePubIndex],
              serverHalf |-> rnd.val, err |-> NoErr,
              invoked |-> <<"random", "encrypt", "id">>]

\* SplitTLFCryptKey with the folder key encrypted as it is, unmasked.
SplitTLFCryptKey_NoMask(crypto, uid, tlfCryptKey, ePrivKey, ePubIndex, pubKey) ==
    LET rnd == MakeRandomTLFCryptKeyServerHalf(crypto)
        enc == EncryptTLFCryptKeyClientHalf(crypto, ePrivKey, pubKey,
                                            tlfCryptKey)
        id == GetTLFCryptKeyServerHalfID(crypto, uid, pubKey, rnd.val)
    IN  IF rnd.err # NoErr
        THEN [info |-> ZeroKeyInfo, serverHalf |-> ZeroServerHalf,
              err |-> rnd.err, invoked |-> <<"random">>]
        ELSE IF enc.err # NoErr
        THEN [info |-> ZeroKeyInfo, serverHalf |-> ZeroServerHalf,
              err |-> enc.err, invoked |-> <<"random", "encrypt">>]
        ELSE IF id.err # NoErr
        THEN [info |-> ZeroKeyInfo, serverHalf |-> ZeroServerHalf,
              err |-> id.err, invoked |-> <<"random", "encrypt", "id">>]
        ELSE [info |-> [ClientHalf |-> enc.val, ServerHalfID |-> id.val,
                        EPubKeyIndex |-> ePubIndex],
              serverHalf |-> rnd.val, err |-> NoErr,
              invoked |-> <<"random", "encrypt", "id">>]

\* The result, with the primitives invoked, in order.  A primitive is
\* invoked only when the ones before it returned no error.
SplitTLFCryptKey(crypto, uid, tlfCryptKey, ePrivKey, ePubIndex, pubKey) ==
    LET rnd == MakeRandomTLFCryptKeyServerHalf(crypto)
        serverHalf == rnd.val
        clientHalf == MaskTLFCryptKey(serverHalf, tlfCryptKey)
        enc == EncryptTLFCryptKeyClientHalf(crypto, ePrivKey, pubKey,
                                            clientHalf)
        id == GetTLFCryptKeyServerHalfID(crypto, uid, pubKey, serverHalf)
    IN  IF rnd.err # NoErr
        THEN [info |-> ZeroKeyInfo, serverHalf |-> ZeroServerHalf,
              err |-> rnd.err, invoked |-> <<"random">>]
        ELSE IF enc.err # NoErr
        THEN [info |-> ZeroKeyInfo, serverHalf |-> ZeroServerHalf,
              err |-> enc.err, invoked |-> <<"random", "encrypt">>]
        ELSE IF id.err # NoErr
        THEN [info |-> ZeroKeyInfo, serverHalf |-> ZeroServerHalf,
              err |-> id.err, invoked |-> <<"random", "encrypt", "id">>]
        ELSE [info |-> [ClientHalf |-> enc.val, ServerHalfID |-> id.val,
                        EPubKeyIndex |-> ePubIndex],
              serverHalf |-> serverHalf, err |-> NoErr,
              invoked |-> <<"random", "encrypt", "id">>]

\* The stubs of cryptoPure: any server half, each primitive failing or not.
PrimitiveErr(name) == Err(name, NoUser, NoKey, 0, 0)

Cryptos ==
    {[serverHalf |-> s,
      randErr |-> IF f[1] THEN PrimitiveErr("random failed") ELSE NoErr,
      encErr |-> IF f[2] THEN PrimitiveErr("encrypt failed") ELSE NoErr,
      idErr |-> IF f[3] THEN PrimitiveErr("id failed") ELSE NoErr] :
        s \in KeyValues, f \in [1..3 -> BOOLEAN]}

EphemeralPrivateKeys == {"e1", "e2"}
EPubKeyIndexes == {-1, 0, 1}

CallSplitTLFCryptKey ==
    /\ ret = Idle
    /\ \E crypto \in Cryptos, uid \in Users, tlfCryptKey \in KeyValues,
          ePrivKey \in EphemeralPrivateKeys, ePubIndex \in EPubKeyIndexes,
          pubKey \in Devices :
        LET r == SplitTLFCryptKey(crypto, uid, tlfCryptKey, ePrivKey,
                                  ePubIndex, pubKey)
        IN  ret' = [op |-> "SplitTLFCryptKey", crypto |-> crypto,
                    uid |-> uid, tlfCryptKey |-> tlfCryptKey,
                    ePrivKey |-> ePrivKey, ePubIndex |-> ePubIndex,
                    pubKey |-> pubKey, info |-> r.info,
                    serverHalf |-> r.serverHalf, err |-> r.err,
                    invoked |-> r.invoked]
    /\ UNCHANGED <<heap, infoA, infoB, merged, calls>>

\* The caller has read the result of the last call.
Return ==
    /\ ret # Idle
    /\ ret' = Idle
    /\ UNCHANGED <<heap, infoA, infoB, merged, calls>>

AddGenerationA == CallAddGeneration("a", GenInfos(calls + 1, TRUE))

AddGenerationAny ==
    \E h \in Handles : CallAddGeneration(h, GenInfos(calls + 1, FALSE))

NextAcc == AddGenerationA \/ Return

SpecAcc == InitAcc /\ [][NextAcc]_vars

NextMerge ==
    \/ CallMergeUsers
    \/ CallMergeUsersServerHalves
    \/ AddGenerationAny
    \/ Return

SpecMerge == InitMerge /\ [][NextMerge]_vars

NextKeys ==
    \/ CallDevicePublicKeysEquals
    \/ CallUserDevicePublicKeysEquals
    \/ Return

SpecKeys == InitKeys /\ [][NextKeys]_vars

NextSplit == CallSplitTLFCryptKey \/ Return

SpecSplit == InitKeys /\ [][NextSplit]_vars

----------------------------------------------------------------------------
(* Claims about the removal accumulator, checked under SpecAcc *)

IsPrefix(s, t) == Len(s) <= Len(t) /\ \A i \in 1..Len(s) : s[i] = t[i]

\* All the devices of each user of info have lists of one length in hp.
Rectangular(hp, info) ==
    \A u \in DOMAIN info :
        \A d1 \in DOMAIN View(hp, info)[u], d2 \in DOMAIN View(hp, info)[u] :
            Len(View(hp, info)[u][d1]) = Len(View(hp, info)[u][d2])

\* genInfo names the users of info and, for each, the flag and the devices
\* that info has in hp, with exactly one ID for each device.
SameShape(hp, info, genInfo) ==
    /\ DOMAIN genInfo = DOMAIN info
    /\ \A u \in DOMAIN info :
        /\ genInfo[u].UserRemoved = info[u].UserRemoved
        /\ DOMAIN genInfo[u].DeviceServerHalfIDs = DOMAIN View(hp, info)[u]
        /\ \A d \in DOMAIN genInfo[u].DeviceServerHalfIDs :
                Len(genInfo[u].DeviceServerHalfIDs[d]) = 1

AddGenerationReturned == ret.op = "AddGeneration"
AddGenerationFailed == AddGenerationReturned /\ ret.err # NoErr
AddGenerationSucceeded == AddGenerationReturned /\ ret.err = NoErr

\* C1: whenever AddGeneration returns an error, the history is exactly as
\* it was before the call: no ID was appended to any device list.
C1_AllOrNothing == AddGenerationFailed => heap = ret.pre

\* C2: a successful AddGeneration leaves every device list of every user
\* of the history as the list before the call followed by the single ID
\* the generation gives for that device, and changes nothing else; no call
\* changes, reorders or removes an entry that a list already had; so every
\* list holds the IDs of the generations in call order.
C2_GenerationOrder ==
    /\ AddGenerationSucceeded =>
        /\ \A u \in DOMAIN InfoOf(ret.h) :
            /\ u \in DOMAIN ret.genInfo
            /\ DOMAIN View(heap, InfoOf(ret.h))[u]
                    = DOMAIN View(ret.pre, InfoOf(ret.h))[u]
            /\ \A d \in DOMAIN View(heap, InfoOf(ret.h))[u] :
                /\ d \in DOMAIN ret.genInfo[u].DeviceServerHalfIDs
                /\ Len(ret.genInfo[u].DeviceServerHalfIDs[d]) = 1
                /\ View(heap, InfoOf(ret.h))[u][d]
                    = Append(View(ret.pre, InfoOf(ret.h))[u][d],
                             ret.genInfo[u].DeviceServerHalfIDs[d][1])
        /\ \A r \in Refs :
            (\A u \in DOMAIN InfoOf(ret.h) :
                InfoOf(ret.h)[u].DeviceServerHalfIDs # r)
            => heap[r] = ret.pre[r]
    /\ AddGenerationReturned =>
        \A r \in Refs :
            /\ DOMAIN heap[r] = DOMAIN ret.pre[r]
            /\ \A d \in DOMAIN heap[r] : IsPrefix(ret.pre[r][d], heap[r][d])
    /\ \A r \in Refs : \A d \in DOMAIN heap[r] :
        \A i \in 1..Len(heap[r][d]), j \in 1..Len(heap[r][d]) :
            i < j => heap[r][d][i].gen < heap[r][d][j].gen

\* Two successful calls in a row: a list holds the IDs of both.
C2_Witness ==
    /\ AddGenerationSucceeded
    /\ \E r \in Refs : \E d \in DOMAIN heap[r] :
        /\ Len(heap[r][d]) = 2
        /\ Len(ret.pre[r][d]) = 1

\* C3: AddGeneration succeeds only on a history whose users each have
\* device lists of one length, and then leaves every list one longer, so
\* the history is rectangular after the call too.
C3_Rectangular ==
    AddGenerationSucceeded =>
        /\ Rectangular(ret.pre, InfoOf(ret.h))
        /\ Rectangular(heap, InfoOf(ret.h))
        /\ \A u \in DOMAIN InfoOf(ret.h) :
            \A d \in DOMAIN View(heap, InfoOf(ret.h))[u] :
                Len(View(heap, InfoOf(ret.h))[u][d])
                    = Len(View(ret.pre, InfoOf(ret.h))[u][d]) + 1

\* A generation of the history's own shape is refused because two devices
\* of a user had lists of different lengths.
C3_Witness ==
    /\ AddGenerationFailed
    /\ ~Rectangular(ret.pre, InfoOf(ret.h))
    /\ SameShape(ret.pre, InfoOf(ret.h), ret.genInfo)
    /\ ret.err.kind = "expected keys"

DeviceErrors ==
    {"expected keys", "expected exactly one key",
     "no generation info for device"}
UserErrors ==
    {"UserRemoved", "device count", "no generation info for user"}

\* AddGeneration succeeds exactly on a generation of the history's shape
\* and a rectangular history.
SucceedsIffSameShape ==
    AddGenerationReturned =>
        (ret.err = NoErr <=>
            /\ SameShape(ret.pre, InfoOf(ret.h), ret.genInfo)
            /\ Rectangular(ret.pre, InfoOf(ret.h)))

\* C4 as stated: success exactly on a generation of the history's shape,
\* and every error names the user, and the device where one is involved.
C4_Original ==
    /\ SucceedsIffSameShape
    /\ AddGenerationFailed =>
        /\ ret.err.uid \in Users
        /\ ret.err.kind \in DeviceErrors => ret.err.key \in Devices

\* C4, amended: success exactly on a generation of the history's shape and
\* a rectangular history; an error about a device names the user and the
\* device, an error about a user names the user, and the error for a
\* differing user count names the two counts and no user.
C4_SucceedsIffSameShape ==
    /\ SucceedsIffSameShape
    /\ AddGenerationFailed =>
        /\ ret.err.kind \in DeviceErrors \cup UserErrors \cup {"user count"}
        /\ ret.err.kind \in DeviceErrors =>
            /\ ret.err.uid \in DOMAIN ret.genInfo \cap DOMAIN InfoOf(ret.h)
            /\ ret.err.key
                \in DOMAIN ret.genInfo[ret.err.uid].DeviceServerHalfIDs
        /\ ret.err.kind \in UserErrors =>
            /\ ret.err.uid \in DOMAIN ret.genInfo
            /\ ret.err.key = NoKey
        /\ ret.err.kind = "user count" <=>
                MapLen(InfoOf(ret.h)) # MapLen(ret.genInfo)
        /\ ret.err.kind = "user count" =>
            /\ ret.err.uid = NoUser
            /\ ret.err.key = NoKey
            /\ ret.err.x = MapLen(InfoOf(ret.h))
            /\ ret.err.y = MapLen(ret.genInfo)

\* A generation with another UserRemoved flag for one user, and otherwise
\* of the history's shape, is refused.
C4_Witness ==
    /\ AddGenerationFailed
    /\ ret.err.kind = "UserRemoved"
    /\ Rectangular(ret.pre, InfoOf(ret.h))
    /\ DOMAIN ret.genInfo = DOMAIN InfoOf(ret.h)
    /\ MapLen(ret.genInfo) = 2

----------------------------------------------------------------------------
(* Claims about the two MergeUsers, checked under SpecMerge *)

MergeReturned == ret.op \in {"MergeUsers", "MergeUsersServerHalves"}

\* C7: MergeUsers of a and b with no user in common returns a new map of
\* exactly the users of both, each with the payload of its input; with a
\* user in common it returns an error naming such a user and a nil map;
\* the inputs are as they were.
C7_DisjointUnion ==
    MergeReturned =>
        /\ IF DOMAIN ret.a \cap DOMAIN ret.b = {}
           THEN /\ ret.err = NoErr
                /\ ~ret.merged.isNil
                /\ DOMAIN ret.merged.m = DOMAIN ret.a \cup DOMAIN ret.b
                /\ \A u \in DOMAIN ret.a : ret.merged.m[u] = ret.a[u]
                /\ \A u \in DOMAIN ret.b : ret.merged.m[u] = ret.b[u]
           ELSE /\ ret.err # NoErr
                /\ ret.err.uid \in DOMAIN ret.a \cap DOMAIN ret.b
                /\ ret.merged = NilMap
        /\ heap = ret.pre
        /\ ret.op = "MergeUsers" =>
            /\ infoA = ret.a
            /\ infoB = ret.b
            /\ merged = ret.merged

\* MergeUsers has returned the union of two non-empty histories.
C7_Witness ==
    /\ ret.op = "MergeUsers"
    /\ ret.err = NoErr
    /\ ret.a # EmptyMap
    /\ ret.b # EmptyMap

\* C10: once MergeUsers has succeeded, the device lists reached through
\* the merged info are those reached through infoA and infoB, whatever
\* AddGeneration calls, successful or not, were made through any of them.
C10_SharedDeviceMaps ==
    ~merged.isNil =>
        /\ \A u \in DOMAIN infoA :
            View(heap, merged.m)[u] = View(heap, infoA)[u]
        /\ \A u \in DOMAIN infoB :
            View(heap, merged.m)[u] = View(heap, infoB)[u]

\* A failing AddGeneration through the merged info has appended an ID to
\* a list of infoA and to none of infoB, and the call before it, through
\* infoA, had appended to the same list.
C10_Witness ==
    /\ ~merged.isNil
    /\ AddGenerationFailed
    /\ ret.h = "m"
    /\ \E u \in DOMAIN infoA : \E d \in Devices :
        /\ Len(View(heap, infoA)[u][d]) = 2
        /\ Len(View(ret.pre, infoA)[u][d]) = 1
    /\ View(heap, infoB) = View(ret.pre, infoB)
    /\ infoB # EmptyMap

----------------------------------------------------------------------------
(* Claims about the key sets, checked under SpecKeys *)

\* a and b have all but one key in common, a or b having one key more.
DifferByOneKey(a, b) ==
    \E k \in Devices :
        \/ k \in DOMAIN a /\ k \notin DOMAIN b /\ DOMAIN a \ {k} = DOMAIN b
        \/ k \in DOMAIN b /\ k \notin DOMAIN a /\ DOMAIN b \ {k} = DOMAIN a

\* C5: DevicePublicKeys.Equals is reflexive and symmetric over every map
\* from device key to boolean, and two sets that differ by one key are
\* unequal.
C5_EqualsReflexiveSymmetric ==
    ret.op = "DevicePublicKeys.Equals" =>
        /\ ret.a = ret.b => ret.result
        /\ ret.result = DevicePublicKeysEquals(ret.b, ret.a)
        /\ DifferByOneKey(ret.a, ret.b) => ~ret.result

\* C6: UserDevicePublicKeys.Equals(a, b) is true exactly when a and b have
\* the same users and every user's two device sets are equal under
\* DevicePublicKeys.Equals, a user with an empty device set included.
C6_EqualsIffSameUsers ==
    ret.op = "UserDevicePublicKeys.Equals" =>
        (ret.result <=>
            /\ DOMAIN ret.a = DOMAIN ret.b
            /\ \A u \in DOMAIN ret.a :
                DevicePublicKeysEquals(ret.a[u], ret.b[u]))

----------------------------------------------------------------------------
(* Claims about SplitTLFCryptKey, checked under SpecSplit *)

SplitReturned == ret.op = "SplitTLFCryptKey"

\* The error of the first primitive that fails, in the order random,
\* encrypt, ID; NoErr when none fails.
FirstPrimitiveErr(crypto) ==
    IF crypto.randErr # NoErr THEN crypto.randErr
    ELSE IF crypto.encErr # NoErr THEN crypto.encErr
    ELSE crypto.idErr

\* C8: when a primitive fails, SplitTLFCryptKey returns the error of the
\* first failing primitive unchanged, with the zero TLFCryptKeyInfo and the
\* zero server half, and has invoked no primitive after the failing one.
C8_AbortsAtFirstFailure ==
    SplitReturned /\ FirstPrimitiveErr(ret.crypto) # NoErr =>
        /\ ret.err = FirstPrimitiveErr(ret.crypto)
        /\ ret.info = ZeroKeyInfo
        /\ ret.serverHalf = ZeroServerHalf
        /\ ret.invoked =
            IF ret.crypto.randErr # NoErr THEN <<"random">>
            ELSE IF ret.crypto.encErr # NoErr THEN <<"random", "encrypt">>
            ELSE <<"random", "encrypt", "id">>

\* The encryption failed after a non-zero server half was generated.
C8_Witness ==
    /\ SplitReturned
    /\ ret.crypto.randErr = NoErr
    /\ ret.crypto.encErr # NoErr
    /\ ret.crypto.serverHalf # ZeroServerHalf
    /\ ret.err = ret.crypto.encErr

\* C9: when no primitive fails, SplitTLFCryptKey returns the server half
\* the random primitive produced and a TLFCryptKeyInfo whose ClientHalf is
\* the encryption, under the given keys, of the mask of the folder key
\* with that server half, whose ServerHalfID is derived from the user, the
\* device key and that server half, and whose EPubKeyIndex is the index
\* given; unmasking the client half with the server half returned gives the
\* folder key.
C9_SplitBindsServerHalf ==
    SplitReturned /\ FirstPrimitiveErr(ret.crypto) = NoErr =>
        /\ ret.err = NoErr
        /\ ret.serverHalf = ret.crypto.serverHalf
        /\ ret.info.ClientHalf =
            [privateKey |-> ret.ePrivKey, publicKey |-> ret.pubKey,
             clientHalf |->
                MaskTLFCryptKey(ret.crypto.serverHalf, ret.tlfCryptKey)]
        /\ ret.info.ServerHalfID =
            [uid |-> ret.uid, key |-> ret.pubKey,
             serverHalf |-> ret.crypto.serverHalf]
        /\ ret.info.EPubKeyIndex = ret.ePubIndex
        /\ UnmaskTLFCryptKey(ret.serverHalf, ret.info.ClientHalf.clientHalf)
                = ret.tlfCryptKey

\* A split succeeded with a server half that changes the key.
C9_Witness ==
    /\ SplitReturned
    /\ ret.err = NoErr
    /\ ret.serverHalf # ZeroServerHalf
    /\ ret.info.ClientHalf.clientHalf # ret.tlfCryptKey
    /\ ret.info.EPubKeyIndex # 0

====
